---- MODULE Spec2Model ----
(***************************************************************************)
(* Model of windows/easy_shared_preferences_plugin_c_api.cpp: the C entry  *)
(* point EasySharedPreferencesPluginCApiRegisterWithRegistrar, the         *)
(* registrar manager it consults and the plugin registration method it     *)
(* delegates to.  One host thread drives everything; a call of the entry   *)
(* point is split at its sequence points (argument evaluation, the         *)
(* delegated call, the return).                                            *)
(***************************************************************************)
EXTENDS Integers, Sequences, FiniteSets

\* Bounds of the model.
MaxHandles == 2      \* registrar handles the host creates in one run
MaxCalls == 3        \* calls of the entry point the host makes in one run

Handles == 1..MaxHandles

\* Failures the delegated registration call can end with.
Errors == {"E1", "E2"}

\* The null registrar wrapper (a null PluginRegistrarWindows*).
NullWrapper == [ref |-> 0, id |-> 0]

VARIABLES
  nextHandle,     \* host: number of handles created so far
  validHandles,   \* host: the handles that are alive
  registrars,     \* manager: handle -> wrapper (a function on the handles seen)
  nextId,         \* manager: identity of the next wrapper it constructs
  attached,       \* wrappers the plugin has attached its handlers to
  pc,             \* position of the host thread in the entry point
  registrar,      \* the entry point's parameter
  wrapper,        \* the value of the argument expression (lines 10-11)
  lookupArg,      \* the handle the manager's lookup was given in this call
  pluginResult,   \* how the delegated call ended: "none", "normal" or an error
  hostResult,     \* what the host saw the entry point end with
  nCalls,         \* calls of the entry point made by the host
  invoked,        \* delegated calls entered during the current call
  returned,       \* delegated calls that have ended during the current call
  invocations     \* history of delegated calls: [handle, wrapper]

vars == <<nextHandle, validHandles, registrars, nextId, attached, pc, registrar,
          wrapper, lookupArg, pluginResult, hostResult, nCalls, invoked,
          returned, invocations>>

hostVars == <<nextHandle, validHandles>>
callVars == <<pc, registrar, wrapper, lookupArg, pluginResult, hostResult,
              nCalls, invoked, returned, invocations>>

\* The manager's lookup: the wrapper registered for the handle, constructed
\* and registered first when the handle has not been seen.
GetRegistrar(regs, h, id) ==
  IF h \in DOMAIN regs
    THEN regs
    ELSE [x \in DOMAIN regs \cup {h} |->
            IF x = h THEN [ref |-> h, id |-> id] ELSE regs[x]]

Init ==
  /\ nextHandle = 0
  /\ validHandles = {}
  /\ registrars = << >>
  /\ nextId = 1
  /\ attached = {}
  /\ pc = "idle"
  /\ registrar = 0
  /\ wrapper = NullWrapper
  /\ lookupArg = 0
  /\ pluginResult = "none"
  /\ hostResult = "none"
  /\ nCalls = 0
  /\ invoked = 0
  /\ returned = 0
  /\ invocations = << >>

\* The host creates a registrar handle.
HostCreateHandle ==
  /\ pc = "idle"
  /\ nextHandle < MaxHandles
  /\ nextHandle' = nextHandle + 1
  /\ validHandles' = validHandles \cup {nextHandle + 1}
  /\ UNCHANGED <<registrars, nextId, attached>>
  /\ UNCHANGED callVars

\* The host destroys a registrar handle; the manager drops its wrapper.
HostDestroyHandle ==
  /\ pc = "idle"
  /\ \E h \in validHandles :
       /\ validHandles' = validHandles \ {h}
       /\ registrars' = [x \in DOMAIN registrars \ {h} |-> registrars[x]]
  /\ UNCHANGED <<nextHandle, nextId, attached>>
  /\ UNCHANGED callVars

\* A once-only guard: a handle registered before is not registered again.
CallEntryPointOnce(h) ==
  /\ pc = "idle"
  /\ nCalls < MaxCalls
  /\ nCalls' = nCalls + 1
  /\ registrar' = h
  /\ IF \E i \in 1..Len(invocations) : invocations[i].handle = h
       THEN /\ pc' = "idle"
            /\ hostResult' = "normal"
            /\ UNCHANGED <<wrapper, lookupArg, pluginResult, invoked, returned>>
       ELSE /\ pc' = "entered"
            /\ wrapper' = NullWrapper
            /\ lookupArg' = 0
            /\ pluginResult' = "none"
            /\ hostResult' = "none"
            /\ invoked' = 0
            /\ returned' = 0
  /\ UNCHANGED <<registrars, nextId, attached, invocations>>
  /\ UNCHANGED hostVars

\* The host calls the entry point with the handle h (lines 7-8).
CallEntryPoint(h) ==
  /\ pc = "idle"
  /\ nCalls < MaxCalls
  /\ nCalls' = nCalls + 1
  /\ pc' = "entered"
  /\ registrar' = h
  /\ wrapper' = NullWrapper
  /\ lookupArg' = 0
  /\ pluginResult' = "none"
  /\ hostResult' = "none"
  /\ invoked' = 0
  /\ returned' = 0
  /\ UNCHANGED <<registrars, nextId, attached, invocations>>
  /\ UNCHANGED hostVars

\* The host calls the entry point, always with a handle that is alive.
HostCall == \E h \in validHandles : CallEntryPoint(h)

\* The lookup is made for a handle other than the parameter.
ResolveRegistrarOther ==
  /\ pc = "entered"
  /\ \E h \in Handles :
       /\ registrars' = GetRegistrar(registrars, h, nextId)
       /\ nextId' = IF h \in DOMAIN registrars THEN nextId ELSE nextId + 1
       /\ wrapper' = registrars'[h]
       /\ lookupArg' = h
  /\ pc' = "resolved"
  /\ UNCHANGED <<attached, registrar, pluginResult, hostResult, nCalls,
                 invoked, returned, invocations>>
  /\ UNCHANGED hostVars

\* A new wrapper is constructed on every call and replaces the registered one.
ResolveRegistrarReplace ==
  /\ pc = "entered"
  /\ registrars' = [x \in DOMAIN registrars \cup {registrar} |->
                      IF x = registrar THEN [ref |-> registrar, id |-> nextId]
                                       ELSE registrars[x]]
  /\ nextId' = nextId + 1
  /\ wrapper' = registrars'[registrar]
  /\ lookupArg' = registrar
  /\ pc' = "resolved"
  /\ UNCHANGED <<attached, registrar, pluginResult, hostResult, nCalls,
                 invoked, returned, invocations>>
  /\ UNCHANGED hostVars

\* The argument expression (lines 10-11):
\* PluginRegistrarManager::GetInstance()->GetRegistrar<...>(registrar).
ResolveRegistrar ==
  /\ pc = "entered"
  /\ registrars' = GetRegistrar(registrars, registrar, nextId)
  /\ nextId' = IF registrar \in DOMAIN registrars THEN nextId ELSE nextId + 1
  /\ wrapper' = registrars'[registrar]
  /\ lookupArg' = registrar
  /\ pc' = "resolved"
  /\ UNCHANGED <<attached, registrar, pluginResult, hostResult, nCalls,
                 invoked, returned, invocations>>
  /\ UNCHANGED hostVars

\* The delegated call is made with a null wrapper.
InvokeRegisterNull ==
  /\ pc = "resolved"
  /\ pc' = "inPlugin"
  /\ invoked' = invoked + 1
  /\ invocations' = Append(invocations,
                           [handle |-> registrar, wrapper |-> NullWrapper])
  /\ UNCHANGED <<registrars, nextId, attached, registrar, wrapper, lookupArg,
                 pluginResult, hostResult, nCalls, returned>>
  /\ UNCHANGED hostVars

\* The delegated call is posted for later instead of being made.
InvokeRegisterDeferred ==
  /\ pc = "resolved"
  /\ pc' = "pluginReturned"
  /\ pluginResult' = "normal"
  /\ UNCHANGED <<registrars, nextId, attached, registrar, wrapper, lookupArg,
                 hostResult, nCalls, invoked, returned, invocations>>
  /\ UNCHANGED hostVars

\* The delegated call (line 9):
\* EasySharedPreferencesPlugin::RegisterWithRegistrar(<wrapper>) is entered.
InvokeRegister ==
  /\ pc = "resolved"
  /\ pc' = "inPlugin"
  /\ invoked' = invoked + 1
  /\ invocations' = Append(invocations,
                           [handle |-> registrar, wrapper |-> wrapper])
  /\ UNCHANGED <<registrars, nextId, attached, registrar, wrapper, lookupArg,
                 pluginResult, hostResult, nCalls, returned>>
  /\ UNCHANGED hostVars

\* The plugin's registration method attaches its handlers and returns.
PluginRegisterReturns ==
  /\ pc = "inPlugin"
  /\ pc' = "pluginReturned"
  /\ attached' = attached \cup {invocations[Len(invocations)].wrapper}
  /\ pluginResult' = "normal"
  /\ returned' = returned + 1
  /\ UNCHANGED <<registrars, nextId, registrar, wrapper, lookupArg,
                 hostResult, nCalls, invoked, invocations>>
  /\ UNCHANGED hostVars

\* The plugin's registration method fails with the error e.
PluginRegisterFails ==
  /\ pc = "inPlugin"
  /\ \E e \in Errors : pluginResult' = e
  /\ pc' = "pluginThrew"
  /\ returned' = returned + 1
  /\ UNCHANGED <<registrars, nextId, attached, registrar, wrapper, lookupArg,
                 hostResult, nCalls, invoked, invocations>>
  /\ UNCHANGED hostVars

\* The entry point reports a failure of its own.
ReturnToHostFail ==
  /\ pc \in {"pluginReturned", "pluginThrew"}
  /\ pc' = "idle"
  /\ hostResult' = IF pluginResult = "normal" THEN "E1" ELSE pluginResult
  /\ UNCHANGED <<registrars, nextId, attached, registrar, wrapper, lookupArg,
                 pluginResult, nCalls, invoked, returned, invocations>>
  /\ UNCHANGED hostVars

\* The entry point catches the failure of the delegated call.
ReturnToHostSwallow ==
  /\ pc \in {"pluginReturned", "pluginThrew"}
  /\ pc' = "idle"
  /\ hostResult' = "normal"
  /\ UNCHANGED <<registrars, nextId, attached, registrar, wrapper, lookupArg,
                 pluginResult, nCalls, invoked, returned, invocations>>
  /\ UNCHANGED hostVars

\* The entry point releases the handle it was given.
ReturnToHostRelease ==
  /\ pc \in {"pluginReturned", "pluginThrew"}
  /\ pc' = "idle"
  /\ hostResult' = pluginResult
  /\ validHandles' = validHandles \ {registrar}
  /\ UNCHANGED <<registrars, nextId, attached, registrar, wrapper, lookupArg,
                 pluginResult, nCalls, invoked, returned, invocations>>
  /\ UNCHANGED nextHandle

\* The end of the entry point (line 12): there is no statement after the
\* delegated call and no handler around it, so the call's outcome is the
\* entry point's outcome.
ReturnToHost ==
  /\ pc \in {"pluginReturned", "pluginThrew"}
  /\ pc' = "idle"
  /\ hostResult' = pluginResult
  /\ UNCHANGED <<registrars, nextId, attached, registrar, wrapper, lookupArg,
                 pluginResult, nCalls, invoked, returned, invocations>>
  /\ UNCHANGED hostVars

Next ==
  \/ HostCreateHandle
  \/ HostDestroyHandle
  \/ HostCall
  \/ ResolveRegistrar
  \/ InvokeRegister
  \/ PluginRegisterReturns
  \/ PluginRegisterFails
  \/ ReturnToHost

Spec == Init /\ [][Next]_vars

\* A call of the entry point has been made and has ended.
CallEnded == pc = "idle" /\ nCalls > 0

TypeOK ==
  /\ nextHandle \in 0..MaxHandles
  /\ validHandles \subseteq 1..nextHandle
  /\ DOMAIN registrars \subseteq validHandles
  /\ pc \in {"idle", "entered", "resolved", "inPlugin", "pluginReturned",
             "pluginThrew"}
  /\ pluginResult \in {"none", "normal"} \cup Errors
  /\ hostResult \in {"none", "normal"} \cup Errors
  /\ nCalls \in 0..MaxCalls

\* The host thread is inside a call of the entry point before or after the step.
InCall == pc # "idle" \/ pc' # "idle"

\* The delegated call made by the current call of the entry point.
Last == invocations[Len(invocations)]

\* C1: a call of the entry point with a valid handle makes exactly one call
\* of the plugin's registration method, and its argument is a non-null
\* registrar wrapper.
C1_ExactlyOneRegistration ==
  /\ invoked <= 1
  /\ CallEnded => /\ invoked = 1
                  /\ Last.handle = registrar
                  /\ Last.wrapper # NullWrapper

C1_Witness ==
  /\ CallEnded
  /\ registrar \in validHandles
  /\ invoked = 1
  /\ Last.wrapper # NullWrapper

\* C2: the wrapper passed to the plugin's registration method is the one the
\* manager holds for the handle the host passed, the lookup was made with
\* that handle, and it was made before the registration method was entered.
C2_WrapperOfThisHandle ==
  (pc # "idle" /\ invoked > 0) =>
     /\ lookupArg = registrar
     /\ registrar \in DOMAIN registrars
     /\ Last.wrapper = registrars[registrar]
     /\ Last.wrapper.ref = registrar

C2_Witness ==
  /\ pc = "inPlugin"
  /\ Cardinality(DOMAIN registrars) = 2
  /\ lookupArg = registrar
  /\ Last.wrapper = registrars[registrar]

C4_NormalReturn ==
  (CallEnded /\ pluginResult = "normal") => hostResult = "normal"

C4_Witness ==
  /\ CallEnded
  /\ invoked = 1
  /\ pluginResult = "normal"
  /\ hostResult = "normal"

\* C5: the entry point has no error of its own; a failure of the delegated
\* call reaches the host as the same error, and the registration method is
\* not called again.
C5_FailurePropagates ==
  CallEnded =>
     /\ pluginResult \in Errors => (hostResult = pluginResult /\ invoked = 1)
     /\ hostResult \in Errors => pluginResult = hostResult

C5_Witness ==
  /\ CallEnded
  /\ pluginResult = "E2"
  /\ hostResult = "E2"
  /\ invoked = 1

\* C6: when the entry point has returned, the registration method has been
\* entered and has ended, and after a normal end the plugin's handlers are
\* attached to the wrapper.
C6_Synchronous ==
  CallEnded =>
     /\ invoked > 0
     /\ returned = invoked
     /\ pluginResult # "none"
     /\ pluginResult = "normal" => Last.wrapper \in attached

C6_Witness ==
  /\ CallEnded
  /\ returned = 1
  /\ pluginResult = "normal"
  /\ Last.wrapper \in attached

\* C7: no step of a call of the entry point creates or destroys a handle;
\* the handle it was given stays alive, and the only handle given to the
\* manager's lookup is that one.
C7_HandleUntouched ==
  [][InCall =>
       /\ validHandles' = validHandles
       /\ nextHandle' = nextHandle
       /\ registrar' \in validHandles'
       /\ lookupArg' \in {0, registrar'}]_vars

C7_Witness ==
  /\ CallEnded
  /\ registrar \in validHandles
  /\ lookupArg = registrar
  /\ Cardinality(validHandles) = 2

\* C8: after N calls of the entry point the registration method has been
\* called N times, each time with the wrapper of that call's handle, and
\* calls with the same handle were passed the same wrapper.
C8_NoOnceOnlyGuard ==
  /\ pc = "idle" => Len(invocations) = nCalls
  /\ \A i \in 1..Len(invocations) :
       invocations[i].wrapper.ref = invocations[i].handle
  /\ \A i, j \in 1..Len(invocations) :
       invocations[i].handle = invocations[j].handle
         => invocations[i].wrapper = invocations[j].wrapper

C8_Witness ==
  /\ pc = "idle"
  /\ nCalls = 3
  /\ Len(invocations) = 3
  /\ invocations[1].handle = invocations[2].handle
  /\ invocations[1].wrapper = invocations[2].wrapper
  /\ invocations[3].handle # invocations[1].handle
====
